---- MODULE Spec2Model ----
(***************************************************************************)
(* A model of crypt.py: the CoinGecko client (CoinGeckoAPI), the data      *)
(* manager (CryptoDataManager) and the driver (CryptoApp.run).             *)
(*                                                                         *)
(* Text (file contents, printed lines, exception messages) is modelled as  *)
(* TLA+ strings, character by character.  The emoji the program prints in  *)
(* its messages are written in ASCII: ~ (fetching), # (title), v (saved),  *)
(* OK (done), X (error).  Whether sys.stdout can encode them is part of    *)
(* the environment (console): where it cannot, print raises                *)
(* UnicodeEncodeError and prints nothing.                                  *)
(***************************************************************************)
EXTENDS Integers, Sequences, FiniteSets, TLC

(***************************************************************************)
(* Bounds of the model.                                                    *)
(***************************************************************************)
\* Longest JSON array the server answers with.
MaxLen == 2
\* Number of manager operations called in the free-order specification.
MaxOps == 2
\* Most characters the device takes of a write that fails for lack of space.
MaxFree == 1

(***************************************************************************)
(* Values: what response.json() yields inside a record.  A value is null,  *)
(* an integer or a string; a record (a Python dict) is a sequence of       *)
(* key/value pairs with distinct keys, in insertion order; the data is a   *)
(* sequence of records.                                                    *)
(***************************************************************************)
Null == [t |-> "null", n |-> 0, s |-> ""]
Num(i) == [t |-> "num", n |-> i, s |-> ""]
Str(x) == [t |-> "str", n |-> 0, s |-> x]
P(key, val) == [k |-> key, v |-> val]

HasKey(item, key) == \E i \in 1..Len(item) : item[i].k = key
Lookup(item, key) == item[CHOOSE i \in 1..Len(item) : item[i].k = key].v

\* dict.get(key, default), as used at crypt.py:76.
Get(item, key, default) == IF HasKey(item, key) THEN Lookup(item, key) ELSE default

(***************************************************************************)
(* Strings.                                                                *)
(***************************************************************************)
Char(s, i) == SubSeq(s, i, i)

\* s[i..] starts with p
StartsAt(s, i, p) == i + Len(p) - 1 <= Len(s) /\ SubSeq(s, i, i + Len(p) - 1) = p

\* p in s
Contains(s, p) == \E i \in 1..(Len(s) + 1) : StartsAt(s, i, p)

\* Python's str(v) / f"{v}" of a value.
PyStr(v) == CASE v.t = "null" -> "None"
              [] v.t = "num" -> ToString(v.n)
              [] OTHER -> v.s

LowerChars == "abcdefghijklmnopqrstuvwxyz"
UpperChars == "ABCDEFGHIJKLMNOPQRSTUVWXYZ"
UpperChar(c) == IF \E i \in 1..Len(LowerChars) : Char(LowerChars, i) = c
                THEN Char(UpperChars, CHOOSE i \in 1..Len(LowerChars) : Char(LowerChars, i) = c)
                ELSE c
RECURSIVE Upper(_)
\* str.upper() at crypt.py:84.
Upper(s) == IF s = "" THEN "" ELSE UpperChar(Head(s)) \o Upper(Tail(s))

(***************************************************************************)
(* Exceptions.  An exception is its class and its str(); NoExc stands for  *)
(* "nothing raised".  Bases gives each class its direct base classes.      *)
(***************************************************************************)
NoExc == [type |-> "", msg |-> ""]
Exc(type, msg) == [type |-> type, msg |-> msg]

\* The exception classes the table knows, by their direct base classes: the
\* built-in ones of Python 3.11, and those of json, csv and requests, which
\* are written with their module, as is the error of the chart window.
BaseExceptionSubclasses ==
    {"BaseExceptionGroup", "Exception", "GeneratorExit", "KeyboardInterrupt", "SystemExit"}
ExceptionSubclasses ==
    {"ArithmeticError", "AssertionError", "AttributeError", "BufferError", "EOFError",
     "ImportError", "LookupError", "MemoryError", "NameError", "OSError",
     "ReferenceError", "RuntimeError", "StopIteration", "StopAsyncIteration",
     "SyntaxError", "SystemError", "TypeError", "ValueError", "Warning", "_csv.Error",
     "_tkinter.TclError"}
OSErrorSubclasses ==
    {"BlockingIOError", "ChildProcessError", "ConnectionError", "FileExistsError",
     "FileNotFoundError", "InterruptedError", "IsADirectoryError",
     "NotADirectoryError", "PermissionError", "ProcessLookupError", "TimeoutError",
     "requests.exceptions.RequestException"}
ConnectionErrorSubclasses ==
    {"BrokenPipeError", "ConnectionAbortedError", "ConnectionRefusedError",
     "ConnectionResetError"}
UnicodeErrorSubclasses ==
    {"UnicodeDecodeError", "UnicodeEncodeError", "UnicodeTranslateError"}
WarningSubclasses ==
    {"BytesWarning", "DeprecationWarning", "EncodingWarning", "FutureWarning",
     "ImportWarning", "PendingDeprecationWarning", "ResourceWarning", "RuntimeWarning",
     "SyntaxWarning", "UnicodeWarning", "UserWarning"}
RequestExceptionSubclasses ==
    {"requests.exceptions.ChunkedEncodingError", "requests.exceptions.ConnectionError",
     "requests.exceptions.HTTPError", "requests.exceptions.InvalidJSONError",
     "requests.exceptions.RetryError", "requests.exceptions.Timeout",
     "requests.exceptions.TooManyRedirects", "requests.exceptions.URLRequired",
     "requests.exceptions.UnrewindableBodyError"}
\* The classes of requests that are a RequestException and a ValueError.
RequestValueErrors ==
    {"requests.exceptions.InvalidHeader", "requests.exceptions.InvalidSchema",
     "requests.exceptions.InvalidURL", "requests.exceptions.MissingSchema"}

\* cls.__bases__, in order.  A class outside the table has no entry.
Bases(cls) ==
    CASE cls = "object" -> <<>>
      [] cls = "BaseException" -> <<"object">>
      [] cls \in BaseExceptionSubclasses -> <<"BaseException">>
      [] cls = "ExceptionGroup" -> <<"BaseExceptionGroup", "Exception">>
      [] cls \in ExceptionSubclasses -> <<"Exception">>
      [] cls \in OSErrorSubclasses -> <<"OSError">>
      [] cls \in ConnectionErrorSubclasses -> <<"ConnectionError">>
      [] cls \in UnicodeErrorSubclasses -> <<"UnicodeError">>
      [] cls \in WarningSubclasses -> <<"Warning">>
      [] cls \in {"UnicodeError", "json.decoder.JSONDecodeError"} -> <<"ValueError">>
      [] cls \in {"IndexError", "KeyError"} -> <<"LookupError">>
      [] cls \in {"FloatingPointError", "OverflowError", "ZeroDivisionError"} ->
            <<"ArithmeticError">>
      [] cls \in {"NotImplementedError", "RecursionError"} -> <<"RuntimeError">>
      [] cls = "ModuleNotFoundError" -> <<"ImportError">>
      [] cls = "UnboundLocalError" -> <<"NameError">>
      [] cls = "IndentationError" -> <<"SyntaxError">>
      [] cls = "TabError" -> <<"IndentationError">>
      [] cls \in RequestExceptionSubclasses -> <<"requests.exceptions.RequestException">>
      [] cls = "requests.exceptions.ReadTimeout" -> <<"requests.exceptions.Timeout">>
      [] cls \in {"requests.exceptions.ProxyError", "requests.exceptions.SSLError"} ->
            <<"requests.exceptions.ConnectionError">>
      [] cls \in RequestValueErrors ->
            <<"requests.exceptions.RequestException", "ValueError">>
      [] cls = "requests.exceptions.InvalidProxyURL" -> <<"requests.exceptions.InvalidURL">>
      [] cls = "requests.exceptions.ContentDecodingError" ->
            <<"requests.exceptions.RequestException", "urllib3.exceptions.HTTPError">>
      [] cls = "urllib3.exceptions.HTTPError" -> <<"Exception">>
      [] cls = "requests.exceptions.StreamConsumedError" ->
            <<"requests.exceptions.RequestException", "TypeError">>
      [] cls = "requests.exceptions.RequestsWarning" -> <<"Warning">>
      [] cls = "requests.exceptions.RequestsDependencyWarning" ->
            <<"requests.exceptions.RequestsWarning">>
      [] cls = "requests.exceptions.FileModeWarning" ->
            <<"requests.exceptions.RequestsWarning", "DeprecationWarning">>
      [] cls = "requests.exceptions.ConnectTimeout" ->
            <<"requests.exceptions.ConnectionError", "requests.exceptions.Timeout">>
      [] cls = "requests.exceptions.JSONDecodeError" ->
            <<"requests.exceptions.InvalidJSONError", "json.decoder.JSONDecodeError">>

\* issubclass(cls, of)
RECURSIVE IsSubclass(_, _)
IsSubclass(cls, of) == \/ cls = of
                       \/ \E i \in 1..Len(Bases(cls)) : IsSubclass(Bases(cls)[i], of)

(***************************************************************************)
(* json.dump(self.data, file, indent=4): the text written at crypt.py:64.  *)
(***************************************************************************)
IndentWidth == 4

RECURSIVE Spaces(_)
Spaces(n) == IF n <= 0 THEN "" ELSE " " \o Spaces(n - 1)

\* The encoder's newline_indent at a nesting level.
NewlineIndent(level) == "\n" \o Spaces(IndentWidth * level)

\* One character of a string as the encoder writes it inside quotes.  The
\* characters of the model are the printable ASCII characters and the
\* control characters written below; the encoder's \b and \uXXXX forms are
\* for characters that cannot be written in a string here.
JsonEscapeChar(c) == CASE c = "\"" -> "\\\""
                       [] c = "\\" -> "\\\\"
                       [] c = "\n" -> "\\n"
                       [] c = "\r" -> "\\r"
                       [] c = "\t" -> "\\t"
                       [] c = "\f" -> "\\f"
                       [] OTHER -> c
RECURSIVE JsonEscape(_)
JsonEscape(s) == IF s = "" THEN "" ELSE JsonEscapeChar(Head(s)) \o JsonEscape(Tail(s))

\* A writer that puts the characters between the quotes as they are.
JsonStringRaw(s) == "\"" \o s \o "\""
\* A string as the encoder writes it (ensure_ascii, ASCII text).
JsonString(s) == "\"" \o JsonEscape(s) \o "\""

JsonScalar(v) == CASE v.t = "null" -> "null"
                   [] v.t = "num" -> ToString(v.n)
                   [] OTHER -> JsonString(v.s)

RECURSIVE JsonPairs(_, _, _)
\* The pairs of a dict from the i-th on, "key": value, joined by "," and newline_indent.
JsonPairs(item, i, level) ==
    IF i > Len(item) THEN ""
    ELSE (IF i > 1 THEN "," \o NewlineIndent(level) ELSE "")
         \o JsonString(item[i].k) \o ": " \o JsonScalar(item[i].v)
         \o JsonPairs(item, i + 1, level)

JsonDict(item, level) ==
    IF Len(item) = 0 THEN "{}"
    ELSE "{" \o NewlineIndent(level + 1) \o JsonPairs(item, 1, level + 1)
         \o NewlineIndent(level) \o "}"

RECURSIVE JsonItems(_, _, _)
JsonItems(data, i, level) ==
    IF i > Len(data) THEN ""
    ELSE (IF i > 1 THEN "," \o NewlineIndent(level) ELSE "")
         \o JsonDict(data[i], level)
         \o JsonItems(data, i + 1, level)

JsonDump(data) ==
    IF Len(data) = 0 THEN "[]"
    ELSE "[" \o NewlineIndent(1) \o JsonItems(data, 1, 1) \o NewlineIndent(0) \o "]"

(***************************************************************************)
(* csv.DictWriter(file, fieldnames=keys) with the default (excel) dialect: *)
(* delimiter ",", quotechar '"', doubled quotes, minimal quoting, lines    *)
(* ended by "\r\n"; the text written at crypt.py:72-76.                    *)
(***************************************************************************)
\* A key list that leaves out total_volume.
CsvKeysNoVolume == <<"id", "symbol", "name", "current_price", "market_cap">>
\* keys at crypt.py:70
CsvKeys == <<"id", "symbol", "name", "current_price", "market_cap", "total_volume">>

\* The writer's text of a cell value: None is written as the empty string.
CsvText(v) == IF v.t = "null" THEN "" ELSE PyStr(v)

CsvSpecial(c) == c \in {",", "\"", "\r", "\n"}
CsvNeedsQuote(s) == \E i \in 1..Len(s) : CsvSpecial(Char(s, i))

RECURSIVE CsvDoubleQuotes(_)
CsvDoubleQuotes(s) ==
    IF s = "" THEN ""
    ELSE (IF Head(s) = "\"" THEN "\"\"" ELSE Head(s)) \o CsvDoubleQuotes(Tail(s))

CsvField(s) == IF CsvNeedsQuote(s) THEN "\"" \o CsvDoubleQuotes(s) \o "\"" ELSE s

RECURSIVE CsvJoin(_, _)
\* writer.writerow(cells): the fields joined by the delimiter, then the line end.
CsvJoin(cells, i) ==
    IF i > Len(cells) THEN "\r\n"
    ELSE (IF i > 1 THEN "," ELSE "") \o CsvField(cells[i]) \o CsvJoin(cells, i + 1)

\* writer.writeheader()
CsvHeader == CsvJoin(CsvKeys, 1)

\* {key: item.get(key, "") for key in keys}, in fieldnames order (crypt.py:76).
CsvRowDict(item) == [j \in 1..Len(CsvKeys) |-> Get(item, CsvKeys[j], Str(""))]
CsvRow(item) == CsvJoin([j \in 1..Len(CsvKeys) |-> CsvText(CsvRowDict(item)[j])], 1)

RECURSIVE CsvRows(_, _)
CsvRows(data, i) == IF i > Len(data) THEN "" ELSE CsvRow(data[i]) \o CsvRows(data, i + 1)

CsvDump(data) == CsvHeader \o CsvRows(data, 1)

(***************************************************************************)
(* display_data (crypt.py:79-84).                                          *)
(***************************************************************************)
DisplayTitle == "\n# Top Cryptocurrencies:"

\* The first exception the f-string at crypt.py:84 raises for a coin, reading
\* coin['name'], coin['symbol'].upper(), coin['current_price'],
\* coin['market_cap'] from left to right.
DisplayCoinExc(coin) ==
    IF ~HasKey(coin, "name") THEN Exc("KeyError", "'name'")
    ELSE IF ~HasKey(coin, "symbol") THEN Exc("KeyError", "'symbol'")
    ELSE IF Lookup(coin, "symbol").t = "null"
         THEN Exc("AttributeError", "'NoneType' object has no attribute 'upper'")
    ELSE IF Lookup(coin, "symbol").t = "num"
         THEN Exc("AttributeError", "'int' object has no attribute 'upper'")
    ELSE IF ~HasKey(coin, "current_price") THEN Exc("KeyError", "'current_price'")
    ELSE IF ~HasKey(coin, "market_cap") THEN Exc("KeyError", "'market_cap'")
    ELSE NoExc

DisplayLine(coin) ==
    "- " \o PyStr(Lookup(coin, "name"))
    \o " (" \o Upper(Lookup(coin, "symbol").s)
    \o "): $" \o PyStr(Lookup(coin, "current_price"))
    \o " | Market Cap: $" \o PyStr(Lookup(coin, "market_cap"))

RECURSIVE DisplayLoop(_, _, _)
\* The loop at crypt.py:82-84 from the i-th coin on: what it printed and what it raised.
DisplayLoop(data, i, printed) ==
    IF i > Len(data) THEN [printed |-> printed, exc |-> NoExc]
    ELSE IF DisplayCoinExc(data[i]) # NoExc
         THEN [printed |-> printed, exc |-> DisplayCoinExc(data[i])]
    ELSE DisplayLoop(data, i + 1, Append(printed, DisplayLine(data[i])))

DisplayData(data) == DisplayLoop(data, 1, <<DisplayTitle>>)

(***************************************************************************)
(* plot_market_caps (crypt.py:86-109): the two list comprehensions, which  *)
(* read coin['name'] of every coin and then coin['market_cap'] of every    *)
(* coin; then the chart, whose bars have the market caps as heights; then   *)
(* the label f"${yval:,.0f}" of every bar.                                 *)
(***************************************************************************)
PlotExtractExc(data) ==
    IF \E i \in 1..Len(data) : ~HasKey(data[i], "name") THEN Exc("KeyError", "'name'")
    ELSE IF \E i \in 1..Len(data) : ~HasKey(data[i], "market_cap")
         THEN Exc("KeyError", "'market_cap'")
    ELSE NoExc

\* The market caps that are no number: a null is the only such value here.
NullCaps(data) == {i \in 1..Len(data) : Lookup(data[i], "market_cap").t = "null"}

\* What a market cap of None raises: plt.bar at crypt.py:94 refuses the
\* height when it adds it to the bottom of the bar, or, where the bars keep
\* the heights they were given, the format at crypt.py:105 refuses it.
PlotNullCapErrors ==
    {Exc("TypeError", "unsupported operand type(s) for +: 'int' and 'NoneType'"),
     Exc("TypeError", "unsupported format string passed to NoneType.__format__")}

(***************************************************************************)
(* get_market_data (crypt.py:21-48).                                       *)
(***************************************************************************)
\* BASE_URL at crypt.py:15 and the endpoint at crypt.py:29
BASE_URL == "https://api.coingecko.com/api/v3"
Endpoint == BASE_URL \o "/coins/markets"

\* per_page passed by run at crypt.py:128
RunPerPage == 10
\* "page": 1 at crypt.py:36
FirstPage == 1

\* Parameters that ask for the page after the first.
ParamsNextPage(vs_currency, per_page) ==
    [vs_currency |-> vs_currency, order |-> "market_cap_desc",
     per_page |-> per_page, page |-> FirstPage + 1, sparkline |-> FALSE]
\* params at crypt.py:32-38
Params(vs_currency, per_page) ==
    [vs_currency |-> vs_currency, order |-> "market_cap_desc",
     per_page |-> per_page, page |-> FirstPage, sparkline |-> FALSE]

\* The query string requests builds of the params, in the order of the dict.
QueryString(params) ==
    "vs_currency=" \o params.vs_currency
    \o "&order=" \o params.order
    \o "&per_page=" \o ToString(params.per_page)
    \o "&page=" \o ToString(params.page)
    \o "&sparkline=" \o (IF params.sparkline THEN "True" ELSE "False")

\* The host and the path of an https URL.
Scheme == "https://"
RECURSIVE PathStart(_, _)
PathStart(url, i) == IF i > Len(url) \/ Char(url, i) = "/" THEN i ELSE PathStart(url, i + 1)
UrlHost(url) == SubSeq(url, Len(Scheme) + 1, PathStart(url, Len(Scheme) + 1) - 1)
UrlPath(url) == SubSeq(url, PathStart(url, Len(Scheme) + 1), Len(url))

\* A message that leaves out the body text.
ApiErrorMessageNoBody(response) == "API Error: " \o ToString(response.status_code)
\* The message of the exception raised at crypt.py:48.
ApiErrorMessage(response) ==
    "API Error: " \o ToString(response.status_code) \o " - " \o response.text

\* A return value that drops the first record.
ReturnedDataTruncated(response) ==
    IF Len(response.json) = 0 THEN response.json ELSE Tail(response.json)
\* What get_market_data returns for a 200 response (crypt.py:45).
ReturnedData(response) == response.json

(***************************************************************************)
(* The environment: the records a server may answer with, the responses,   *)
(* and the failures of the network, the file system and matplotlib.        *)
(***************************************************************************)
Without(item, key) == SelectSeq(item, LAMBDA p : p.k # key)
With(item, key, val) == [i \in DOMAIN item |-> IF item[i].k = key THEN P(key, val) ELSE item[i]]

\* A record with the six keys the program reads and one it does not.
Full == <<P("id", Str("btc")), P("symbol", Str("btc")), P("name", Str("Bit")),
          P("current_price", Num(7)), P("market_cap", Num(13)),
          P("total_volume", Num(5)), P("ath", Num(9))>>
\* Two keys only; a string with the characters the writers must escape; a null.
Sparse == <<P("name", Str("a,\"b\"\n\\c\f")), P("market_cap", Null)>>
\* A symbol that is no string, a negative price.
Odd == With(With(Full, "symbol", Num(1)), "current_price", Num(-2))
\* Every key display_data reads, with a null market cap and a comma in the name.
NullCap == With(With(Full, "market_cap", Null), "name", Str("x,y"))

DisplayKeys == {"name", "symbol", "current_price", "market_cap"}

Records == {Full, Sparse, Odd, NullCap, <<>>} \cup {Without(Full, k) : k \in DisplayKeys}

Lists == UNION {[1..n -> Records] : n \in 0..MaxLen}

\* The lists the free-order caller builds its manager over.
MgrRecords == {Full, Sparse, Odd, NullCap}
MgrLists == UNION {[1..n -> MgrRecords] : n \in 0..MaxLen}

ErrorStatuses == {204, 429, 500}
ErrorBodies == {"", "Not Found", "{\"error\":\"limit\"}"}

\* A response: its status_code, its text, whether the text is JSON, and what
\* its json() returns if it is.  The program reads text only of a non-200
\* response and json() only of a 200 one.
OkResponses == {[status_code |-> 200, text |-> "[...]", is_json |-> TRUE, json |-> d] :
                   d \in Lists}
\* A 200 answer whose body is no JSON.
BadBodyResponses == {[status_code |-> 200, text |-> "<html>", is_json |-> FALSE,
                      json |-> <<>>]}
ErrResponses == {[status_code |-> c, text |-> b, is_json |-> FALSE, json |-> <<>>] :
                    c \in ErrorStatuses, b \in ErrorBodies}
NoResponse == [status_code |-> 0, text |-> "", is_json |-> FALSE, json |-> <<>>]

\* What response.json() raises on a body that is no JSON: the decoder's
\* error, as the class of requests (2.27 on) or of json (before).
JsonDecodeErrors ==
    {Exc(cls, "Expecting value: line 1 column 1 (char 0)") :
        cls \in {"requests.exceptions.JSONDecodeError", "json.decoder.JSONDecodeError"}}

\* What self.session.get raises when no answer comes: the str() requests gives
\* its exception names the host, the requested URL and the cause urllib3
\* reported.  Two causes stand for all: a refused connection (its text holds
\* the address of the connection object, here one address) and a certificate
\* that does not verify.
PoolMessage(url, params, cause) ==
    "HTTPSConnectionPool(host='" \o UrlHost(url)
    \o "', port=443): Max retries exceeded with url: "
    \o UrlPath(url) \o "?" \o QueryString(params)
    \o " (Caused by " \o cause \o ")"
RefusedCause ==
    "NewConnectionError('<urllib3.connection.HTTPSConnection object at 0x7f3c5a1b2d90>: "
    \o "Failed to establish a new connection: [Errno 111] Connection refused')"
CertificateCause ==
    "SSLError(SSLCertVerificationError(1, '[SSL: CERTIFICATE_VERIFY_FAILED] "
    \o "certificate verify failed: unable to get local issuer certificate (_ssl.c:1006)'))"
NetworkErrors(url, params) ==
    {Exc("requests.exceptions.ConnectionError", PoolMessage(url, params, RefusedCause)),
     Exc("requests.exceptions.SSLError", PoolMessage(url, params, CertificateCause))}
\* What open(filename, 'w') raises: the file may not be written, or the file
\* system is read-only.
OpenErrors(filename) ==
    {Exc("PermissionError", "[Errno 13] Permission denied: '" \o filename \o "'"),
     Exc("OSError", "[Errno 30] Read-only file system: '" \o filename \o "'")}
WriteError == Exc("OSError", "[Errno 28] No space left on device")
\* What plt.figure raises at crypt.py:93 when the chart window cannot be made.
PlotError == Exc("_tkinter.TclError", "couldn't connect to display \":0\"")

\* What a write that fails for lack of space leaves in the file: the
\* characters the device still took, fewer than the text has.
Partials(text) == {SubSeq(text, 1, n) : n \in 0..(IF Len(text) - 1 < MaxFree
                                                   THEN Len(text) - 1 ELSE MaxFree)}

\* The console: whether sys.stdout can encode the emoji of the messages.
Consoles == {"utf8", "ascii"}

\* What print raises on a console that cannot encode the emoji of a message.
EncodeError(codepoint) ==
    Exc("UnicodeEncodeError",
        "'ascii' codec can't encode character '" \o codepoint
        \o "' in position 1: ordinal not in range(128)")
\* The emoji of the messages at crypt.py:125, 81, 65 and 77, 143, 147.
EmojiFetching == "\\U0001f504"
EmojiTitle == "\\U0001f4ca"
EmojiSaved == "\\u2714"
EmojiDone == "\\u2705"
EmojiError == "\\u274c"

JsonName == "crypto_data.json"
CsvName == "crypto_data.csv"
NoFile == [exists |-> FALSE, text |-> ""]
File(text) == [exists |-> TRUE, text |-> text]

(***************************************************************************)
(* State.                                                                  *)
(***************************************************************************)
VARIABLES
    pc,           \* where run() is; "mgr" when a caller drives the manager itself
    console,      \* what sys.stdout can encode
    http_log,     \* the GET requests issued so far: endpoint and params
    response,     \* the response get_market_data received (NoResponse: none)
    market_data,  \* run's local market_data: [has, val]
    manager,      \* the CryptoDataManager: [has, data]
    ctor_arg,     \* the list that was passed to CryptoDataManager(data)
    stdout,       \* the lines printed so far
    json_file,    \* crypto_data.json
    csv_file,     \* crypto_data.csv
    exc,          \* the exception in flight (NoExc: none)
    steps,        \* the steps of run() started so far, in order
    raised,       \* every exception raised so far with the step that raised it
    ops           \* manager operations called by the free-order caller

vars == <<pc, console, http_log, response, market_data, manager, ctor_arg, stdout,
          json_file, csv_file, exc, steps, raised, ops>>

Unset == [has |-> FALSE, val |-> <<>>]
NoManager == [has |-> FALSE, data |-> <<>>]

MsgFetching == "[~] Fetching data from CoinGecko API..."
MsgDone == "[OK] Done!"
MsgErrorPrefix == "[X] An error occurred: "
MsgSaved(filename) == "[v] Data saved to " \o filename

Init ==
    /\ pc = "start"
    /\ console \in Consoles
    /\ http_log = <<>>
    /\ response = NoResponse
    /\ market_data = Unset
    /\ manager = NoManager
    /\ ctor_arg = <<>>
    /\ stdout = <<>>
    /\ json_file = NoFile
    /\ csv_file = NoFile
    /\ exc = NoExc
    /\ steps = <<>>
    /\ raised = <<>>
    /\ ops = 0

\* An exception e leaves the step named step.
Raise(step, e) ==
    /\ exc' = e
    /\ raised' = Append(raised, [step |-> step, exc |-> e])

NoRaise == exc' = NoExc /\ UNCHANGED raised

\* print(line) of a message with an emoji: the line is printed, or, on a
\* console that cannot encode the emoji, nothing is printed and print raises.
CanPrint == console = "utf8"

(***************************************************************************)
(* The methods.  Each takes the name of the calling step and where the     *)
(* caller goes on when the call returns (okpc) and when it raises (failpc).*)
(***************************************************************************)

\* CoinGeckoAPI.get_market_data (crypt.py:21-48): one GET; a 200 response
\* returns response.json(), which raises if the body is no JSON; any other
\* response raises Exception; the GET itself may raise (no connection).
GetMarketData(vs_currency, per_page, step, okpc, failpc) ==
    /\ http_log' = Append(http_log, [url |-> Endpoint,
                                     params |-> Params(vs_currency, per_page)])
    /\ \/ /\ \E e \in NetworkErrors(Endpoint, Params(vs_currency, per_page)) :
                Raise(step, e)
          /\ pc' = failpc
          /\ UNCHANGED <<response, market_data>>
       \/ \E r \in OkResponses \cup BadBodyResponses \cup ErrResponses :
             /\ response' = r
             /\ IF r.status_code = 200
                THEN IF r.is_json
                     THEN /\ market_data' = [has |-> TRUE, val |-> ReturnedData(r)]
                          /\ NoRaise
                          /\ pc' = okpc
                     ELSE /\ \E e \in JsonDecodeErrors : Raise(step, e)
                          /\ pc' = failpc
                          /\ UNCHANGED market_data
                ELSE /\ Raise(step, Exc("Exception", ApiErrorMessage(r)))
                     /\ pc' = failpc
                     /\ UNCHANGED market_data
    /\ UNCHANGED <<console, manager, ctor_arg, stdout, json_file, csv_file>>

\* CryptoDataManager.__init__ (crypt.py:57-59)
NewManager(data) ==
    /\ manager' = [has |-> TRUE, data |-> data]
    /\ ctor_arg' = data

Reverse(data) == [i \in 1..Len(data) |-> data[Len(data) + 1 - i]]

\* A display_data that reverses self.data in place before it prints.
DisplayCallReversing(step, okpc, failpc) ==
    LET r == DisplayData(Reverse(manager.data)) IN
    /\ manager' = [manager EXCEPT !.data = Reverse(manager.data)]
    /\ IF ~CanPrint
       THEN Raise(step, EncodeError(EmojiTitle)) /\ pc' = failpc /\ UNCHANGED stdout
       ELSE /\ stdout' = stdout \o r.printed
            /\ IF r.exc = NoExc
               THEN NoRaise /\ pc' = okpc
               ELSE Raise(step, r.exc) /\ pc' = failpc
    /\ UNCHANGED <<console, http_log, response, market_data, ctor_arg, json_file,
                   csv_file>>

\* CryptoDataManager.display_data (crypt.py:79-84)
DisplayCall(step, okpc, failpc) ==
    LET r == DisplayData(manager.data) IN
    /\ IF ~CanPrint
       THEN Raise(step, EncodeError(EmojiTitle)) /\ pc' = failpc /\ UNCHANGED stdout
       ELSE /\ stdout' = stdout \o r.printed
            /\ IF r.exc = NoExc
               THEN NoRaise /\ pc' = okpc
               ELSE Raise(step, r.exc) /\ pc' = failpc
    /\ UNCHANGED <<console, http_log, response, market_data, manager, ctor_arg,
                   json_file, csv_file>>

\* CryptoDataManager.save_to_json (crypt.py:61-65): open() may fail, leaving
\* the file as it was; the write may fail for lack of space, leaving the
\* start of the text; after the file is written and closed the message is
\* printed, which the console may refuse.
SaveToJsonCall(step, okpc, failpc) ==
    /\ \/ /\ json_file' = File(JsonDump(manager.data))
          /\ IF CanPrint
             THEN /\ stdout' = Append(stdout, MsgSaved(JsonName))
                  /\ NoRaise
                  /\ pc' = okpc
             ELSE /\ Raise(step, EncodeError(EmojiSaved))
                  /\ pc' = failpc
                  /\ UNCHANGED stdout
       \/ \E e \in OpenErrors(JsonName) :
             /\ Raise(step, e)
             /\ pc' = failpc
             /\ UNCHANGED <<json_file, stdout>>
       \/ \E left \in Partials(JsonDump(manager.data)) :
             /\ json_file' = File(left)
             /\ Raise(step, WriteError)
             /\ pc' = failpc
             /\ UNCHANGED stdout
    /\ UNCHANGED <<console, http_log, response, market_data, manager, ctor_arg,
                   csv_file>>

\* CryptoDataManager.save_to_csv (crypt.py:67-77)
SaveToCsvCall(step, okpc, failpc) ==
    /\ \/ /\ csv_file' = File(CsvDump(manager.data))
          /\ IF CanPrint
             THEN /\ stdout' = Append(stdout, MsgSaved(CsvName))
                  /\ NoRaise
                  /\ pc' = okpc
             ELSE /\ Raise(step, EncodeError(EmojiSaved))
                  /\ pc' = failpc
                  /\ UNCHANGED stdout
       \/ \E e \in OpenErrors(CsvName) :
             /\ Raise(step, e)
             /\ pc' = failpc
             /\ UNCHANGED <<csv_file, stdout>>
       \/ \E left \in Partials(CsvDump(manager.data)) :
             /\ csv_file' = File(left)
             /\ Raise(step, WriteError)
             /\ pc' = failpc
             /\ UNCHANGED stdout
    /\ UNCHANGED <<console, http_log, response, market_data, manager, ctor_arg,
                   json_file>>

\* CryptoDataManager.plot_market_caps (crypt.py:86-109): the comprehensions
\* raise KeyError on a missing key; the chart window may fail to open; a
\* market cap of None raises TypeError; otherwise the chart is drawn.
PlotCall(step, okpc, failpc) ==
    /\ IF PlotExtractExc(manager.data) # NoExc
       THEN Raise(step, PlotExtractExc(manager.data)) /\ pc' = failpc
       ELSE \/ Raise(step, PlotError) /\ pc' = failpc
            \/ IF NullCaps(manager.data) # {}
               THEN \E e \in PlotNullCapErrors : Raise(step, e) /\ pc' = failpc
               ELSE NoRaise /\ pc' = okpc
    /\ UNCHANGED <<console, http_log, response, market_data, manager, ctor_arg,
                   stdout, json_file, csv_file>>

(***************************************************************************)
(* CryptoApp.run (crypt.py:122-147), one action per statement.             *)
(***************************************************************************)
\* The class named by "except Exception as e" at crypt.py:145.
HandlerClass == "Exception"

Started(step) == steps' = Append(steps, step) /\ UNCHANGED ops

\* crypt.py:125: the first print, inside the try.
RunBegin ==
    /\ pc = "start"
    /\ IF CanPrint
       THEN /\ stdout' = Append(stdout, MsgFetching)
            /\ pc' = "fetch"
            /\ UNCHANGED <<exc, raised>>
       ELSE /\ Raise("begin", EncodeError(EmojiFetching))
            /\ pc' = "except"
            /\ UNCHANGED stdout
    /\ UNCHANGED <<console, http_log, response, market_data, manager, ctor_arg,
                   json_file, csv_file, steps, ops>>

\* crypt.py:128
RunFetch ==
    /\ pc = "fetch"
    /\ Started("fetch")
    /\ GetMarketData("usd", RunPerPage, "fetch", "manager", "except")

\* A run that saves before it displays: from the constructor on to save_to_json.
RunManagerSkipDisplay ==
    /\ pc = "manager"
    /\ NewManager(market_data.val)
    /\ pc' = "save_json"
    /\ UNCHANGED <<console, http_log, response, market_data, stdout, json_file,
                   csv_file, exc, steps, raised, ops>>

\* crypt.py:131
RunManager ==
    /\ pc = "manager"
    /\ NewManager(market_data.val)
    /\ pc' = "display"
    /\ UNCHANGED <<console, http_log, response, market_data, stdout, json_file,
                   csv_file, exc, steps, raised, ops>>

\* A run that goes on to save_to_json when display_data raises.
RunDisplayIgnoreErrors ==
    /\ pc = "display"
    /\ Started("display")
    /\ DisplayCall("display", "save_json", "save_json")

\* crypt.py:134
RunDisplay ==
    /\ pc = "display"
    /\ Started("display")
    /\ DisplayCall("display", "save_json", "except")

\* crypt.py:137
RunSaveJson ==
    /\ pc = "save_json"
    /\ Started("save_json")
    /\ SaveToJsonCall("save_json", "save_csv", "except")

\* crypt.py:138
RunSaveCsv ==
    /\ pc = "save_csv"
    /\ Started("save_csv")
    /\ SaveToCsvCall("save_csv", "plot", "except")

\* crypt.py:141
RunPlot ==
    /\ pc = "plot"
    /\ Started("plot")
    /\ PlotCall("plot", "done", "except")

\* crypt.py:143: the last print of the try.
RunDone ==
    /\ pc = "done"
    /\ IF CanPrint
       THEN /\ stdout' = Append(stdout, MsgDone)
            /\ pc' = "returned"
            /\ UNCHANGED <<exc, raised>>
       ELSE /\ Raise("done", EncodeError(EmojiDone))
            /\ pc' = "except"
            /\ UNCHANGED stdout
    /\ UNCHANGED <<console, http_log, response, market_data, manager, ctor_arg,
                   json_file, csv_file, steps, ops>>

\* crypt.py:145-147: the handler takes the exception if its class is a
\* subclass of the class it names and prints it, and run returns; if the
\* console refuses the message, print raises inside the handler and that
\* exception leaves run.  An exception of any other class leaves run.
RunExcept ==
    /\ pc = "except"
    /\ IF IsSubclass(exc.type, HandlerClass)
       THEN IF CanPrint
            THEN /\ stdout' = Append(stdout, MsgErrorPrefix \o exc.msg)
                 /\ exc' = NoExc
                 /\ pc' = "returned"
                 /\ UNCHANGED raised
            ELSE /\ Raise("except", EncodeError(EmojiError))
                 /\ pc' = "propagated"
                 /\ UNCHANGED stdout
       ELSE /\ pc' = "propagated"
            /\ UNCHANGED <<stdout, exc, raised>>
    /\ UNCHANGED <<console, http_log, response, market_data, manager, ctor_arg,
                   json_file, csv_file, steps, ops>>

Next ==
    \/ RunBegin
    \/ RunFetch
    \/ RunManager
    \/ RunDisplay
    \/ RunSaveJson
    \/ RunSaveCsv
    \/ RunPlot
    \/ RunDone
    \/ RunExcept

Spec == Init /\ [][Next]_vars

(***************************************************************************)
(* A caller that builds a CryptoDataManager over any list and calls its    *)
(* four operations in any order, MaxOps times in all, going on after an    *)
(* operation raises.                                                       *)
(***************************************************************************)
InitOver(lists) ==
    /\ pc = "mgr"
    /\ console \in Consoles
    /\ http_log = <<>>
    /\ response = NoResponse
    /\ market_data = Unset
    /\ \E d \in lists : manager = [has |-> TRUE, data |-> d] /\ ctor_arg = d
    /\ stdout = <<>>
    /\ json_file = NoFile
    /\ csv_file = NoFile
    /\ exc = NoExc
    /\ steps = <<>>
    /\ raised = <<>>
    /\ ops = 0

InitMgr == InitOver(MgrLists)

Called == pc = "mgr" /\ ops < MaxOps /\ ops' = ops + 1 /\ UNCHANGED steps

MgrDisplay == Called /\ DisplayCall("display", "mgr", "mgr")
MgrSaveJson == Called /\ SaveToJsonCall("save_json", "mgr", "mgr")
MgrSaveCsv == Called /\ SaveToCsvCall("save_csv", "mgr", "mgr")
MgrPlot == Called /\ PlotCall("plot", "mgr", "mgr")

NextMgr == MgrDisplay \/ MgrSaveJson \/ MgrSaveCsv \/ MgrPlot

SpecMgr == InitMgr /\ [][NextMgr]_vars

(***************************************************************************)
(* A caller that builds a CryptoDataManager over any list and calls one    *)
(* writer once.                                                            *)
(***************************************************************************)
Once == pc = "mgr" /\ ops = 0 /\ ops' = 1 /\ UNCHANGED steps

InitWriter == InitOver(Lists)

JsonOnce == Once /\ SaveToJsonCall("save_json", "mgr", "mgr")
SpecJson == InitWriter /\ [][JsonOnce]_vars

CsvOnce == Once /\ SaveToCsvCall("save_csv", "mgr", "mgr")
SpecCsv == InitWriter /\ [][CsvOnce]_vars

(***************************************************************************)
(* Readers, used to state what the written files hold.                     *)
(*                                                                         *)
(* JsonLoad reads a JSON text as json.load does (strict: no raw control    *)
(* character inside a string) for an array of objects of scalars.          *)
(***************************************************************************)
Bad == [ok |-> FALSE, val |-> <<>>, pos |-> 0]
Good(v, p) == [ok |-> TRUE, val |-> v, pos |-> p]

At(s, i, c) == i <= Len(s) /\ Char(s, i) = c

RECURSIVE SkipWs(_, _)
SkipWs(s, i) ==
    IF i <= Len(s) /\ Char(s, i) \in {" ", "\n", "\r", "\t"} THEN SkipWs(s, i + 1) ELSE i

RECURSIVE ReadChars(_, _, _)
\* Inside a string literal, from s[i], with acc decoded so far.
ReadChars(s, i, acc) ==
    IF i > Len(s) THEN Bad
    ELSE IF Char(s, i) = "\"" THEN Good(acc, i + 1)
    ELSE IF Char(s, i) \in {"\n", "\r", "\t", "\f"} THEN Bad
    ELSE IF Char(s, i) # "\\" THEN ReadChars(s, i + 1, acc \o Char(s, i))
    ELSE IF i + 1 > Len(s) THEN Bad
    ELSE CASE Char(s, i + 1) \in {"\"", "\\", "/"} ->
                  ReadChars(s, i + 2, acc \o Char(s, i + 1))
           [] Char(s, i + 1) = "n" -> ReadChars(s, i + 2, acc \o "\n")
           [] Char(s, i + 1) = "r" -> ReadChars(s, i + 2, acc \o "\r")
           [] Char(s, i + 1) = "t" -> ReadChars(s, i + 2, acc \o "\t")
           [] Char(s, i + 1) = "f" -> ReadChars(s, i + 2, acc \o "\f")
           [] OTHER -> Bad

ReadString(s, i) == IF At(s, i, "\"") THEN ReadChars(s, i + 1, "") ELSE Bad

Digits == "0123456789"
IsDigitAt(s, i) == i <= Len(s) /\ \E k \in 1..Len(Digits) : Char(Digits, k) = Char(s, i)
DigitVal(c) == (CHOOSE k \in 1..Len(Digits) : Char(Digits, k) = c) - 1

RECURSIVE ReadDigits(_, _, _)
ReadDigits(s, i, acc) ==
    IF IsDigitAt(s, i) THEN ReadDigits(s, i + 1, acc * 10 + DigitVal(Char(s, i)))
    ELSE Good(acc, i)

ReadNumber(s, i) ==
    IF At(s, i, "-")
    THEN IF IsDigitAt(s, i + 1)
         THEN LET r == ReadDigits(s, i + 1, 0) IN Good(Num(0 - r.val), r.pos)
         ELSE Bad
    ELSE IF IsDigitAt(s, i)
         THEN LET r == ReadDigits(s, i, 0) IN Good(Num(r.val), r.pos)
    ELSE Bad

ReadScalar(s, i) ==
    IF StartsAt(s, i, "null") THEN Good(Null, i + 4)
    ELSE IF At(s, i, "\"")
         THEN LET r == ReadString(s, i) IN IF r.ok THEN Good(Str(r.val), r.pos) ELSE Bad
    ELSE ReadNumber(s, i)

RECURSIVE ReadPairs(_, _, _)
\* Inside an object, at the key of its next pair, with the pairs read so far.
ReadPairs(s, i, acc) ==
    LET key == ReadString(s, i) IN
    IF ~key.ok THEN Bad
    ELSE LET colon == SkipWs(s, key.pos) IN
    IF ~At(s, colon, ":") THEN Bad
    ELSE LET val == ReadScalar(s, SkipWs(s, colon + 1)) IN
    IF ~val.ok THEN Bad
    ELSE LET after == SkipWs(s, val.pos)
             pairs == Append(acc, P(key.val, val.val)) IN
    IF At(s, after, "}") THEN Good(pairs, after + 1)
    ELSE IF At(s, after, ",") THEN ReadPairs(s, SkipWs(s, after + 1), pairs)
    ELSE Bad

ReadObject(s, i) ==
    IF ~At(s, i, "{") THEN Bad
    ELSE IF At(s, SkipWs(s, i + 1), "}") THEN Good(<<>>, SkipWs(s, i + 1) + 1)
    ELSE ReadPairs(s, SkipWs(s, i + 1), <<>>)

RECURSIVE ReadItems(_, _, _)
ReadItems(s, i, acc) ==
    LET item == ReadObject(s, i) IN
    IF ~item.ok THEN Bad
    ELSE LET after == SkipWs(s, item.pos)
             items == Append(acc, item.val) IN
    IF At(s, after, "]") THEN Good(items, after + 1)
    ELSE IF At(s, after, ",") THEN ReadItems(s, SkipWs(s, after + 1), items)
    ELSE Bad

ReadArray(s, i) ==
    IF ~At(s, i, "[") THEN Bad
    ELSE IF At(s, SkipWs(s, i + 1), "]") THEN Good(<<>>, SkipWs(s, i + 1) + 1)
    ELSE ReadItems(s, SkipWs(s, i + 1), <<>>)

\* json.load of a whole text: [ok, val]; ok is FALSE where json.load raises.
JsonLoad(s) ==
    LET r == ReadArray(s, SkipWs(s, 1)) IN
    IF r.ok /\ SkipWs(s, r.pos) = Len(s) + 1
    THEN [ok |-> TRUE, val |-> r.val]
    ELSE [ok |-> FALSE, val |-> <<>>]

(***************************************************************************)
(* CsvLoad reads a CSV text as csv.reader does with the default dialect:   *)
(* the rows, each the sequence of its fields.                              *)
(***************************************************************************)
RECURSIVE CsvQuoted(_, _, _)
\* Inside a quoted field, from s[i]: a doubled quote is one quote, a single
\* one ends the quoting.
CsvQuoted(s, i, acc) ==
    IF i > Len(s) THEN [val |-> acc, pos |-> i]
    ELSE IF Char(s, i) # "\"" THEN CsvQuoted(s, i + 1, acc \o Char(s, i))
    ELSE IF At(s, i + 1, "\"") THEN CsvQuoted(s, i + 2, acc \o "\"")
    ELSE [val |-> acc, pos |-> i + 1]

RECURSIVE CsvPlain(_, _, _)
\* Outside quotes, from s[i], up to the next delimiter or line end.
CsvPlain(s, i, acc) ==
    IF i > Len(s) \/ Char(s, i) \in {",", "\r", "\n"} THEN [val |-> acc, pos |-> i]
    ELSE CsvPlain(s, i + 1, acc \o Char(s, i))

CsvReadField(s, i) ==
    IF At(s, i, "\"")
    THEN LET q == CsvQuoted(s, i + 1, "") IN CsvPlain(s, q.pos, q.val)
    ELSE CsvPlain(s, i, "")

RECURSIVE CsvReadRow(_, _, _)
\* The fields of the row that starts at s[i], and where the next row starts.
CsvReadRow(s, i, acc) ==
    LET f == CsvReadField(s, i)
        row == Append(acc, f.val) IN
    IF At(s, f.pos, ",") THEN CsvReadRow(s, f.pos + 1, row)
    ELSE IF StartsAt(s, f.pos, "\r\n") THEN [val |-> row, pos |-> f.pos + 2]
    ELSE IF f.pos <= Len(s) THEN [val |-> row, pos |-> f.pos + 1]
    ELSE [val |-> row, pos |-> f.pos]

RECURSIVE CsvReadRows(_, _, _)
CsvReadRows(s, i, acc) ==
    IF i > Len(s) THEN acc
    ELSE LET r == CsvReadRow(s, i, <<>>) IN CsvReadRows(s, r.pos, Append(acc, r.val))

CsvLoad(s) == CsvReadRows(s, 1, <<>>)

(***************************************************************************)
(* Properties.                                                             *)
(***************************************************************************)
\* The order of the steps in run (crypt.py:128-141).
RunOrder == <<"fetch", "display", "save_json", "save_csv", "plot">>

IsPrefix(p, q) == Len(p) <= Len(q) /\ \A i \in 1..Len(p) : p[i] = q[i]

\* How many of the printed lines start with the given text.
Printed(prefix) == Cardinality({i \in 1..Len(stdout) : StartsAt(stdout[i], 1, prefix)})

RaisedAt(step) == Len(raised) >= 1 /\ raised[1].step = step

\* C1: run never lets a failure out: no state has an exception past the
\* handler; an exception in flight is always taken by the handler; and once
\* a step has failed the run is in the handler or has returned, with the
\* error message of that failure printed exactly once, as the last line, and
\* no exception left in flight.
C1_RunNeverPropagates ==
    /\ pc # "propagated"
    /\ pc = "except" => exc # NoExc /\ IsSubclass(exc.type, "Exception")
    /\ raised # <<>> => pc \in {"except", "returned"}
    /\ (pc = "returned" /\ raised # <<>>) =>
          /\ exc = NoExc
          /\ Printed(MsgErrorPrefix) = 1
          /\ stdout[Len(stdout)] = MsgErrorPrefix \o raised[1].exc.msg

\* C2: for a response whose status is not 200, get_market_data returns no
\* value (market_data is never assigned) and raises an Exception whose
\* message contains the decimal status code and the body text.
C2_Non200Raises ==
    response.status_code \notin {0, 200} =>
        /\ market_data = Unset
        /\ RaisedAt("fetch")
        /\ raised[1].exc.type = "Exception"
        /\ Contains(raised[1].exc.msg, ToString(response.status_code))
        /\ Contains(raised[1].exc.msg, response.text)

C2_Witness ==
    /\ response.status_code = 429
    /\ response.text = "{\"error\":\"limit\"}"
    /\ RaisedAt("fetch")

\* C3: for a 200 response whose body is JSON, get_market_data raises nothing
\* and returns the parsed body itself: the same records in the same order.
C3_OkReturnsParsedBody ==
    (response.status_code = 200 /\ response.is_json) =>
        /\ ~RaisedAt("fetch")
        /\ market_data = [has |-> TRUE, val |-> response.json]

\* A 200 response with two different records has been returned.
C3_Witness ==
    /\ response.status_code = 200
    /\ Len(response.json) = 2
    /\ response.json[1] # response.json[2]
    /\ market_data.has

\* The six columns the CSV file is to have.
SixColumns == <<"id", "symbol", "name", "current_price", "market_cap", "total_volume">>

\* The text the file is to hold for record item in the column of key.
ExpectedCell(item, key) == IF HasKey(item, key) THEN CsvText(Lookup(item, key)) ELSE ""

\* C4: after save_to_csv has written the file, whether or not the console
\* then took its message, the file read back as CSV is the header
\* row of the six column names followed by one row per record, in list
\* order, each of exactly six fields: the record's value under the column's
\* key, or the empty string where the record has no such key.
C4_CsvSixColumns ==
    (ops = 1 /\ exc \in {NoExc, EncodeError(EmojiSaved)}) =>
        LET rows == CsvLoad(csv_file.text) IN
        /\ csv_file.exists
        /\ Len(rows) = Len(manager.data) + 1
        /\ rows[1] = SixColumns
        /\ \A i \in 1..Len(manager.data) :
              /\ Len(rows[i + 1]) = Len(SixColumns)
              /\ \A j \in 1..Len(SixColumns) :
                    rows[i + 1][j] = ExpectedCell(manager.data[i], SixColumns[j])

\* A file written for a record without a total_volume after a record whose
\* name holds a comma and which has a key outside the six.
C4_Witness ==
    /\ ops = 1 /\ exc = NoExc /\ csv_file.exists
    /\ Len(manager.data) = 2
    /\ manager.data[1] = NullCap
    /\ ~HasKey(manager.data[2], "total_volume")

\* C5: after save_to_json has written the file, whether or not the console
\* then took its message, reading the file back with json.load succeeds and yields a list equal to the manager's data.
C5_JsonRoundTrip ==
    (ops = 1 /\ exc \in {NoExc, EncodeError(EmojiSaved)}) =>
        /\ json_file.exists
        /\ JsonLoad(json_file.text) = [ok |-> TRUE, val |-> manager.data]

\* A file written for a record whose name holds quotes, a backslash, a line
\* break and a form feed, followed by another record.
C5_Witness ==
    /\ ops = 1 /\ exc = NoExc /\ json_file.exists
    /\ Len(manager.data) = 2
    /\ manager.data[1] = Sparse
    /\ manager.data[2] = Full

\* The raises that came out of one of the five steps.
StepRaises == {i \in 1..Len(raised) : \E k \in 1..Len(RunOrder) : raised[i].step = RunOrder[k]}

\* C6: the steps of run start in the fixed order, each only after every
\* earlier one returned: at most one step raises, and the step that raises
\* is the last one started.
C6_StepsInOrder ==
    /\ IsPrefix(steps, RunOrder)
    /\ Cardinality(StepRaises) <= 1
    /\ \A i \in StepRaises :
          /\ steps # <<>>
          /\ raised[i].step = steps[Len(steps)]

\* A run that returned after save_to_json raised, having started three steps.
C6_Witness ==
    /\ pc = "returned"
    /\ RaisedAt("save_json")
    /\ steps = <<"fetch", "display", "save_json">>

\* C7: a run issues at most one GET, and it asks for page 1 in the order
\* market_cap_desc; so no request follows a failed one.
C7_OneRequest ==
    /\ Len(http_log) <= 1
    /\ \A i \in 1..Len(http_log) :
          /\ http_log[i].params.page = 1
          /\ http_log[i].params.order = "market_cap_desc"

\* A run that returned after its only request failed.
C7_Witness ==
    /\ pc = "returned"
    /\ RaisedAt("fetch")
    /\ Len(http_log) = 1

\* C8: whatever operations were called on the manager and however they
\* ended, its data is the list passed to the constructor.
C8_DataUnchanged ==
    manager.has => manager.data = ctor_arg

\* Two operations have been called, one raised, and a file was written.
C8_Witness ==
    /\ ops >= 2
    /\ raised # <<>>
    /\ json_file.exists
    /\ Len(manager.data) >= 1

\* C9: a run that has ended, by returning or by an exception leaving it,
\* printed exactly one of the two final messages, as its last line; it
\* printed the success message only if all five steps were started and none
\* raised.
C9_OneFinalMessage ==
    pc \in {"returned", "propagated"} =>
        /\ Printed(MsgDone) + Printed(MsgErrorPrefix) = 1
        /\ stdout[Len(stdout)] = MsgDone \/ StartsAt(stdout[Len(stdout)], 1, MsgErrorPrefix)
        /\ Printed(MsgDone) = 1 => steps = RunOrder /\ raised = <<>>

\* The records of the data that lack a key display_data reads.
Lacking(data) == {i \in 1..Len(data) : \E k \in DisplayKeys : ~HasKey(data[i], k)}

\* The first of the keys display_data reads, in reading order, that item lacks.
FirstMissing(item) ==
    CASE ~HasKey(item, "name") -> "name"
      [] ~HasKey(item, "symbol") -> "symbol"
      [] ~HasKey(item, "current_price") -> "current_price"
      [] OTHER -> "market_cap"

\* The records display_data cannot format: those lacking a key it reads and
\* those whose symbol is no string, so has no upper().
Unformattable(data) ==
    Lacking(data) \cup {i \in 1..Len(data) : /\ HasKey(data[i], "symbol")
                                             /\ Lookup(data[i], "symbol").t # "str"}

\* The least member of a non-empty set of positions.
Least(S) == CHOOSE i \in S : \A j \in S : i <= j

\* How many records display_data went through, the one it raised at included.
DisplayedUpTo == Len(stdout) - 2

\* C10, as stated: in a run whose fetched data has a record lacking name,
\* symbol, current_price or market_cap, display_data raises at that record
\* (the first such), and the run returns with neither file written.
C10_RaisesAtLackingRecord ==
    (pc = "returned" /\ manager.has /\ Lacking(manager.data) # {}) =>
        /\ RaisedAt("display")
        /\ DisplayedUpTo = Least(Lacking(manager.data))
        /\ ~json_file.exists
        /\ ~csv_file.exists

\* C10, amended: in a run whose fetched data has a record lacking name,
\* symbol, current_price or market_cap, display_data raises exactly at the
\* first record it cannot format, which is that record or an earlier one
\* whose symbol is no string, after printing the line of every record before
\* it; it raises KeyError for the first missing key in reading order, unless
\* name and symbol are there and the symbol is no string, when it raises
\* AttributeError; the run then returns with neither file written; and
\* save_to_csv, called on the same data, writes the empty string in the
\* column of every missing key.
C10_DisplayStopsRun ==
    (pc = "returned" /\ manager.has /\ Lacking(manager.data) # {}) =>
        LET first == Least(Unformattable(manager.data))
            item == manager.data[first]
            no_upper == /\ HasKey(item, "name")
                        /\ HasKey(item, "symbol")
                        /\ Lookup(item, "symbol").t # "str"
            rows == CsvLoad(CsvDump(manager.data)) IN
        /\ RaisedAt("display")
        /\ Len(raised) = 1
        /\ steps = <<"fetch", "display">>
        /\ DisplayedUpTo = first
        /\ first <= Least(Lacking(manager.data))
        /\ \A j \in 1..(first - 1) : stdout[j + 2] = DisplayLine(manager.data[j])
        /\ IF no_upper
           THEN raised[1].exc.type = "AttributeError"
           ELSE raised[1].exc = Exc("KeyError", "'" \o FirstMissing(item) \o "'")
        /\ stdout[Len(stdout)] = MsgErrorPrefix \o raised[1].exc.msg
        /\ ~json_file.exists
        /\ ~csv_file.exists
        /\ \A i \in 1..Len(manager.data) : \A j \in 1..Len(SixColumns) :
              ~HasKey(manager.data[i], SixColumns[j]) => rows[i + 1][j] = ""

\* A run that returned after display_data printed one record and raised at
\* the second, which has no market_cap.
C10_Witness ==
    /\ pc = "returned"
    /\ manager.has
    /\ Len(manager.data) = 2
    /\ manager.data[1] = Full
    /\ manager.data[2] = Without(Full, "market_cap")
    /\ raised = <<[step |-> "display", exc |-> Exc("KeyError", "'market_cap'")]>>

====
